---------------------------- MODULE Spec2Model ----------------------------
(***************************************************************************)
(* expo-squircle: the squircle geometry engine (corner budgets, corner     *)
(* profiles, path assembly, the two caches) and the two view components    *)
(* that drive it.                                                          *)
(*                                                                         *)
(* Numbers.  A JavaScript number is modelled as an exact fraction          *)
(* [n |-> numerator, d |-> denominator] in lowest terms with d > 0.  The   *)
(* non-finite values keep d = 0: NaN is 0/0, Infinity is 1/0 and -Infinity *)
(* is -1/0.  A property that is absent (undefined) is the value Undefined. *)
(* Rounding of IEEE doubles is not modelled: arithmetic is exact, and the  *)
(* only rounding is the one the code asks for (toFixed).                   *)
(***************************************************************************)
EXTENDS Integers, Sequences, FiniteSets, TLC

VARIABLES
    PATH_CACHE_MAP,        \* Map<string,string> in insertion order: Seq of [key, value]
    CORNER_PROFILE_CACHE,  \* Map<string,BezierPatch>: Seq of [key, value]
    request,               \* the SquirclePathInput of the pending / last call
    last,                  \* what the last buildSquirclePath call did and returned
    history,               \* the buildSquirclePath calls made so far, oldest first
    frame,                 \* useState<MeasuredFrame | null> of the component
    params,                \* the squircleParams prop
    view,                  \* what the last render of the component produced
    layoutCalls            \* the events the caller's onLayout was invoked with

vars == <<PATH_CACHE_MAP, CORNER_PROFILE_CACHE, request, last, history,
          frame, params, view, layoutCalls>>

---------------------------------------------------------------------------
(* JavaScript numbers as fractions *)

RECURSIVE GCD(_, _)
GCD(a, b) == IF b = 0 THEN a ELSE GCD(b, a % b)

Abs(x) == IF x < 0 THEN -x ELSE x

Sign(x) == IF x > 0 THEN 1 ELSE IF x < 0 THEN -1 ELSE 0

Frac(num, den) ==
    IF den = 0 THEN [n |-> Sign(num), d |-> 0]
    ELSE LET g == GCD(Abs(num), Abs(den))
         IN  [n |-> Sign(den) * (num \div g), d |-> Abs(den) \div g]

Num(i) == [n |-> i, d |-> 1]

Zero == Num(0)
One == Num(1)
NaN == [n |-> 0, d |-> 0]
Infinity == [n |-> 1, d |-> 0]
Undefined == [n |-> 0, d |-> -1]

IsNaN(x) == x.d = 0 /\ x.n = 0
IsFinite(x) == x.d > 0
IsNumber(x) == x.d >= 0

\* x + y, x - y, x * y, x / y of the language
Add(x, y) ==
    IF x.d = 0 /\ y.d = 0 THEN (IF x.n = y.n THEN x ELSE NaN)
    ELSE LET g == GCD(x.d, y.d)
         IN  Frac(x.n * (y.d \div g) + y.n * (x.d \div g), (x.d \div g) * y.d)

Neg(x) == [n |-> -x.n, d |-> x.d]

Sub(x, y) == Add(x, Neg(y))

Mul(x, y) ==
    LET g1 == GCD(Abs(x.n), y.d)
        g2 == GCD(Abs(y.n), x.d)
        h1 == IF g1 = 0 THEN 1 ELSE g1
        h2 == IF g2 = 0 THEN 1 ELSE g2
    IN  Frac((x.n \div h1) * (y.n \div h2), (x.d \div h2) * (y.d \div h1))

Div(x, y) == Mul(x, Frac(y.d, y.n))

\* x < y, x <= y, x === y, x > y: every comparison with NaN is false
Lt(x, y) ==
    /\ ~IsNaN(x) /\ ~IsNaN(y)
    /\ IF x.d = 0 /\ y.d = 0 THEN x.n < y.n
       ELSE LET g == GCD(x.d, y.d)
            IN  x.n * (y.d \div g) < y.n * (x.d \div g)

Eq(x, y) == ~IsNaN(x) /\ ~IsNaN(y) /\ x = y

Le(x, y) == Lt(x, y) \/ Eq(x, y)

Gt(x, y) == Lt(y, x)

\* Math.min and Math.max of two numbers: NaN if either is NaN
MathMin(x, y) == IF IsNaN(x) \/ IsNaN(y) THEN NaN ELSE IF Lt(y, x) THEN y ELSE x

MathMax(x, y) == IF IsNaN(x) \/ IsNaN(y) THEN NaN ELSE IF Lt(x, y) THEN y ELSE x

\* value ?? fallback
Coalesce(value, fallback) == IF value = Undefined THEN fallback ELSE value

---------------------------------------------------------------------------
(* Number.prototype.toFixed and the Math functions *)

RECURSIVE Pow10(_)
Pow10(k) == IF k = 0 THEN 1 ELSE 10 * Pow10(k - 1)

\* <<floor(rem * 10^k / den), remainder>> by long division, rem < den
RECURSIVE LongDiv(_, _, _)
LongDiv(rem, den, k) ==
    IF k = 0 THEN <<0, rem>>
    ELSE LET t == rem * 10
             rest == LongDiv(t % den, den, k - 1)
         IN  <<(t \div den) * Pow10(k - 1) + rest[1], rest[2]>>

\* x.toFixed(k), as the number its digits denote: x rounded to k decimals,
\* a tie away from zero; "NaN" and "Infinity" are kept as they are.  (The
\* sign of a negative value that rounds to zero, "-0.00", is not kept.)
toFixed(x, k) ==
    IF x.d <= 0 THEN x
    ELSE LET m == Abs(x.n)
             ld == LongDiv(m % x.d, x.d, k)
             q == ld[1] + (IF 2 * ld[2] >= x.d THEN 1 ELSE 0)
         IN  Frac(Sign(x.n) * ((m \div x.d) * Pow10(k) + q), Pow10(k))

\* Math.PI and Math.SQRT2 by their convergents 22/7 and 7/5
MathPI == Frac(22, 7)
MathSQRT2 == Frac(7, 5)

degToRad(degrees) == Div(Mul(degrees, MathPI), Num(180))

\* The line through (x0, y0) and (x1, y1) at x
Chord(x, x0, y0, x1, y1) ==
    Add(y0, Div(Mul(Sub(y1, y0), Sub(x, x0)), Sub(x1, x0)))

\* A trigonometric function by the chords between its values y0, y1, y2 at
\* 0, PI/8 and PI/4 (the range of every angle the code builds from a
\* smoothing in [0, 1]); the last chord is extended outside the range.
Interpolate(x, y0, y1, y2) ==
    LET k1 == Div(MathPI, Num(8))
        k2 == Div(MathPI, Num(4))
    IN  IF ~IsFinite(x) THEN NaN
        ELSE IF Le(x, k1) THEN Chord(x, Zero, y0, k1, y1)
        ELSE Chord(x, k1, y1, k2, y2)

\* sin: 0, 0.3827, 0.7071;  cos: 1, 0.9239, 0.7071;  tan: 0, 0.4142, 1
\* (sin(PI/4) is taken as 1 / MathSQRT2, as the quarter arc's chord needs)
MathSin(x) == Interpolate(x, Zero, Frac(3, 8), Frac(5, 7))
MathCos(x) == Interpolate(x, One, Frac(37, 40), Frac(7, 10))
MathTan(x) == Interpolate(x, Zero, Frac(2, 5), One)

---------------------------------------------------------------------------
(* Map<K, V>: a sequence of [key, value] entries in insertion order *)

\* The position of a key, 0 when absent (keys are unique)
MapIndex(map, key) ==
    LET found == {i \in 1..Len(map) : map[i].key = key}
    IN  IF found = {} THEN 0 ELSE CHOOSE i \in found : TRUE

MapHas(map, key) == MapIndex(map, key) > 0

MapGet(map, key) == IF MapHas(map, key) THEN map[MapIndex(map, key)].value ELSE Undefined

\* set keeps the position of a key that is present
MapSet(map, key, value) ==
    IF MapHas(map, key)
    THEN [map EXCEPT ![MapIndex(map, key)] = [key |-> key, value |-> value]]
    ELSE Append(map, [key |-> key, value |-> value])

\* delete(keys().next().value)
MapDeleteFirst(map) == IF map = <<>> THEN map ELSE Tail(map)

MapKeys(map) == [i \in 1..Len(map) |-> map[i].key]

---------------------------------------------------------------------------
(* The path cache *)

PATH_CACHE_LIMIT == 160

\* composeCacheKey with the three decimals of the profile key for the sizes
composeCacheKeyFine(data) ==
    << toFixed(data.width, 3),
       toFixed(data.height, 3),
       toFixed(data.cornerSmoothing, 4),
       IF data.preserveSmoothing THEN 1 ELSE 0,
       toFixed(data.cornerRadius, 2),
       toFixed(data.topLeftCornerRadius, 2),
       toFixed(data.topRightCornerRadius, 2),
       toFixed(data.bottomRightCornerRadius, 2),
       toFixed(data.bottomLeftCornerRadius, 2) >>

\* The joined string is one-to-one with the tuple of its parts
composeCacheKey(data) ==
    << toFixed(data.width, 2),
       toFixed(data.height, 2),
       toFixed(data.cornerSmoothing, 4),
       IF data.preserveSmoothing THEN 1 ELSE 0,
       toFixed(data.cornerRadius, 2),
       toFixed(data.topLeftCornerRadius, 2),
       toFixed(data.topRightCornerRadius, 2),
       toFixed(data.bottomRightCornerRadius, 2),
       toFixed(data.bottomLeftCornerRadius, 2) >>

\* undefined when the key is absent
readCachedPath(map, key) == IF MapHas(map, key) THEN MapGet(map, key) ELSE << >>

\* storeCachedPath that evicts only above the limit
storeCachedPathLate(map, key, value) ==
    LET kept == IF Len(map) > PATH_CACHE_LIMIT /\ ~MapHas(map, key)
                THEN MapDeleteFirst(map)
                ELSE map
    IN  MapSet(kept, key, value)

storeCachedPath(map, key, value) ==
    LET kept == IF Len(map) >= PATH_CACHE_LIMIT /\ ~MapHas(map, key)
                THEN MapDeleteFirst(map)
                ELSE map
    IN  MapSet(kept, key, value)

---------------------------------------------------------------------------
(* normalizeCorners: the budget of each corner *)

\* Object.entries(radiusMap): the insertion order of the keys
CornerIds == <<"topLeft", "topRight", "bottomLeft", "bottomRight">>

ADJACENT_RELATIONS ==
    [ topLeft     |-> << [corner |-> "topRight", side |-> "top"],
                         [corner |-> "bottomLeft", side |-> "left"] >>,
      topRight    |-> << [corner |-> "topLeft", side |-> "top"],
                         [corner |-> "bottomRight", side |-> "right"] >>,
      bottomLeft  |-> << [corner |-> "bottomRight", side |-> "bottom"],
                         [corner |-> "topLeft", side |-> "left"] >>,
      bottomRight |-> << [corner |-> "bottomLeft", side |-> "bottom"],
                         [corner |-> "topRight", side |-> "right"] >> ]

\* .sort(([, r1], [, r2]) => r2 - r1): stable, larger radius first
RECURSIVE InsertByRadius(_, _, _)
InsertByRadius(sorted, corner, radiusMap) ==
    IF sorted = <<>> THEN <<corner>>
    ELSE IF Lt(radiusMap[Head(sorted)], radiusMap[corner])
         THEN <<corner>> \o sorted
         ELSE <<Head(sorted)>> \o InsertByRadius(Tail(sorted), corner, radiusMap)

RECURSIVE SortByRadius(_, _)
SortByRadius(k, radiusMap) ==
    IF k = 0 THEN <<>>
    ELSE InsertByRadius(SortByRadius(k - 1, radiusMap), CornerIds[k], radiusMap)

\* EdgeBudget with every side taken as the width
EdgeBudgetWidthOnly(st, radius, adjacent, width, height) ==
    LET adjacentRadius == st.radiusMap[adjacent.corner]
        adjacentBudget == st.budgetMap[adjacent.corner]
        sideLength == width
    IN  IF Eq(radius, Zero) /\ Eq(adjacentRadius, Zero) THEN Zero
        ELSE IF Le(Zero, adjacentBudget) THEN Sub(sideLength, adjacentBudget)
        ELSE Mul(Div(radius, Add(radius, adjacentRadius)), sideLength)

\* The budget one adjacent corner leaves along the shared side
EdgeBudget(st, radius, adjacent, width, height) ==
    LET adjacentRadius == st.radiusMap[adjacent.corner]
        adjacentBudget == st.budgetMap[adjacent.corner]
        sideLength == IF adjacent.side \in {"top", "bottom"} THEN width ELSE height
    IN  IF Eq(radius, Zero) /\ Eq(adjacentRadius, Zero) THEN Zero
        ELSE IF Le(Zero, adjacentBudget) THEN Sub(sideLength, adjacentBudget)
        ELSE Mul(Div(radius, Add(radius, adjacentRadius)), sideLength)

\* ResolveCorner without the clamp of the radius to the budget
ResolveCornerNoClamp(st, corner, radius, width, height) ==
    LET adjacents == ADJACENT_RELATIONS[corner]
        budget == MathMin(EdgeBudget(st, radius, adjacents[1], width, height),
                          EdgeBudget(st, radius, adjacents[2], width, height))
    IN  [ radiusMap |-> st.radiusMap,
          budgetMap |-> [st.budgetMap EXCEPT ![corner] = budget] ]

\* The body of the forEach for one corner
ResolveCorner(st, corner, radius, width, height) ==
    LET adjacents == ADJACENT_RELATIONS[corner]
        budget == MathMin(EdgeBudget(st, radius, adjacents[1], width, height),
                          EdgeBudget(st, radius, adjacents[2], width, height))
    IN  [ radiusMap |-> [st.radiusMap EXCEPT ![corner] = MathMin(radius, budget)],
          budgetMap |-> [st.budgetMap EXCEPT ![corner] = budget] ]

RECURSIVE ResolveAll(_, _, _, _, _)
ResolveAll(st, order, radii, width, height) ==
    IF order = <<>> THEN st
    ELSE ResolveAll(ResolveCorner(st, Head(order), radii[Head(order)], width, height),
                    Tail(order), radii, width, height)

normalizeCorners(input) ==
    LET radii == [ topLeft     |-> input.topLeftCornerRadius,
                   topRight    |-> input.topRightCornerRadius,
                   bottomLeft  |-> input.bottomLeftCornerRadius,
                   bottomRight |-> input.bottomRightCornerRadius ]
        unset == [ topLeft |-> Num(-1), topRight |-> Num(-1),
                   bottomLeft |-> Num(-1), bottomRight |-> Num(-1) ]
        st == ResolveAll([radiusMap |-> radii, budgetMap |-> unset],
                         SortByRadius(Len(CornerIds), radii), radii,
                         input.width, input.height)
    IN  [ c \in DOMAIN radii |->
            [ radius |-> st.radiusMap[c],
              roundingAndSmoothingBudget |-> st.budgetMap[c] ] ]

---------------------------------------------------------------------------
(* computeCornerProfile: the Bezier patch of one corner *)

cornerProfileCacheKey(input) ==
    << toFixed(input.cornerRadius, 3),
       toFixed(input.cornerSmoothing, 4),
       IF input.preserveSmoothing THEN 1 ELSE 0,
       toFixed(input.roundingAndSmoothingBudget, 3) >>

\* The patch from p, c and d: b and a, and their squeeze into the budget
\* under preserveSmoothing
PatchSides(cornerRadius, budget, preserveSmoothing, p, arcSectionLength, c, d) ==
    LET b == Div(Sub(Sub(Sub(p, arcSectionLength), c), d), Num(3))
        a == Mul(Num(2), b)
        p1ToP3MaxDistance == Sub(Sub(Sub(budget, d), arcSectionLength), c)
        minA == Div(p1ToP3MaxDistance, Num(6))
        maxB == Sub(p1ToP3MaxDistance, minA)
    IN  IF preserveSmoothing /\ Gt(p, budget)
        THEN [ a |-> Sub(p1ToP3MaxDistance, MathMin(b, maxB)),
               b |-> MathMin(b, maxB), c |-> c, d |-> d,
               p |-> MathMin(p, budget),
               cornerRadius |-> cornerRadius, arcSectionLength |-> arcSectionLength ]
        ELSE [ a |-> a, b |-> b, c |-> c, d |-> d, p |-> p,
               cornerRadius |-> cornerRadius, arcSectionLength |-> arcSectionLength ]

\* The arc and the control distances c and d, from the smoothing in effect
PatchCurve(cornerRadius, budget, preserveSmoothing, cornerSmoothing, p, c) ==
    LET arcMeasure == Mul(Num(90), Sub(One, cornerSmoothing))
        arcSectionLength ==
            Mul(Mul(MathSin(degToRad(Div(arcMeasure, Num(2)))), cornerRadius), MathSQRT2)
        angleBeta == Mul(Num(45), cornerSmoothing)
    IN  PatchSides(cornerRadius, budget, preserveSmoothing, p, arcSectionLength, c,
                   Mul(c, MathTan(degToRad(angleBeta))))

\* p, and the smoothing clamped to what the budget allows
PatchExtent(cornerRadius, budget, preserveSmoothing, cornerSmoothing, p) ==
    LET arcMeasure == Mul(Num(90), Sub(One, cornerSmoothing))
        angleAlpha == Div(Sub(Num(90), arcMeasure), Num(2))
        p3ToP4Distance == Mul(cornerRadius, MathTan(degToRad(Div(angleAlpha, Num(2)))))
        angleBeta == Mul(Num(45), cornerSmoothing)
    IN  PatchCurve(cornerRadius, budget, preserveSmoothing, cornerSmoothing, p,
                   Mul(p3ToP4Distance, MathCos(degToRad(angleBeta))))

\* The patch computed on a miss of the profile cache
BezierPatch(input) ==
    LET cornerRadius == input.cornerRadius
        budget == input.roundingAndSmoothingBudget
        p == Mul(Add(One, input.cornerSmoothing), cornerRadius)
        maxSmoothing == Sub(Div(budget, cornerRadius), One)
    IN  IF ~input.preserveSmoothing
        THEN PatchExtent(cornerRadius, budget, FALSE,
                         MathMin(input.cornerSmoothing, maxSmoothing),
                         MathMin(p, budget))
        ELSE PatchExtent(cornerRadius, budget, TRUE, input.cornerSmoothing, p)

\* CORNER_PROFILE_CACHE.set(cacheKey, profile); return profile
StoredProfile(cache, cacheKey, profile) ==
    [profile |-> profile, cache |-> MapSet(cache, cacheKey, profile)]

\* [profile, cache]: the patch returned and CORNER_PROFILE_CACHE afterwards
ProfileFor(input, cache, cacheKey) ==
    IF MapHas(cache, cacheKey)
    THEN [profile |-> MapGet(cache, cacheKey), cache |-> cache]
    ELSE StoredProfile(cache, cacheKey, BezierPatch(input))

computeCornerProfile(input, cache) ==
    ProfileFor(input, cache, cornerProfileCacheKey(input))

---------------------------------------------------------------------------
(* joinCornerProfiles: the path as its sequence of commands *)

\* One command of the path: its letter and its numbers
Cmd(op, args) == [op |-> op, args |-> args]

\* formatSegment with two decimals
formatSegmentShort(value) == toFixed(value, 2)

\* ${value} inside a formatSegment template
formatSegment(value) == toFixed(value, 4)

\* if (cornerRadius): 0 and NaN are falsy
Truthy(x) == IsNumber(x) /\ ~IsNaN(x) /\ x # Zero

traceTopRight(q) ==
    IF Truthy(q.cornerRadius)
    THEN << Cmd("c", << formatSegment(q.a), Zero,
                        formatSegment(Add(q.a, q.b)), Zero,
                        formatSegment(Add(Add(q.a, q.b), q.c)), formatSegment(q.d) >>),
            Cmd("a", << formatSegment(q.cornerRadius), formatSegment(q.cornerRadius),
                        Zero, Zero, One,
                        formatSegment(q.arcSectionLength),
                        formatSegment(q.arcSectionLength) >>),
            Cmd("c", << formatSegment(q.d), formatSegment(q.c),
                        formatSegment(q.d), formatSegment(Add(q.b, q.c)),
                        formatSegment(q.d), formatSegment(Add(Add(q.a, q.b), q.c)) >>) >>
    ELSE << Cmd("l", << formatSegment(q.p), Zero >>) >>

traceBottomRight(q) ==
    IF Truthy(q.cornerRadius)
    THEN << Cmd("c", << Zero, formatSegment(q.a),
                        Zero, formatSegment(Add(q.a, q.b)),
                        formatSegment(Neg(q.d)), formatSegment(Add(Add(q.a, q.b), q.c)) >>),
            Cmd("a", << formatSegment(q.cornerRadius), formatSegment(q.cornerRadius),
                        Zero, Zero, One,
                        Neg(formatSegment(q.arcSectionLength)),
                        formatSegment(q.arcSectionLength) >>),
            Cmd("c", << formatSegment(Neg(q.c)), formatSegment(q.d),
                        formatSegment(Neg(Add(q.b, q.c))), formatSegment(q.d),
                        formatSegment(Neg(Add(Add(q.a, q.b), q.c))), formatSegment(q.d) >>) >>
    ELSE << Cmd("l", << Zero, formatSegment(q.p) >>) >>

traceBottomLeft(q) ==
    IF Truthy(q.cornerRadius)
    THEN << Cmd("c", << formatSegment(Neg(q.a)), Zero,
                        formatSegment(Neg(Add(q.a, q.b))), Zero,
                        formatSegment(Neg(Add(Add(q.a, q.b), q.c))), formatSegment(Neg(q.d)) >>),
            Cmd("a", << formatSegment(q.cornerRadius), formatSegment(q.cornerRadius),
                        Zero, Zero, One,
                        Neg(formatSegment(q.arcSectionLength)),
                        Neg(formatSegment(q.arcSectionLength)) >>),
            Cmd("c", << formatSegment(Neg(q.d)), formatSegment(Neg(q.c)),
                        formatSegment(Neg(q.d)), formatSegment(Neg(Add(q.b, q.c))),
                        formatSegment(Neg(q.d)), formatSegment(Neg(Add(Add(q.a, q.b), q.c))) >>) >>
    ELSE << Cmd("l", << formatSegment(Neg(q.p)), Zero >>) >>

traceTopLeft(q) ==
    IF Truthy(q.cornerRadius)
    THEN << Cmd("c", << Zero, formatSegment(Neg(q.a)),
                        Zero, formatSegment(Neg(Add(q.a, q.b))),
                        formatSegment(q.d), formatSegment(Neg(Add(Add(q.a, q.b), q.c))) >>),
            Cmd("a", << formatSegment(q.cornerRadius), formatSegment(q.cornerRadius),
                        Zero, Zero, One,
                        formatSegment(q.arcSectionLength),
                        Neg(formatSegment(q.arcSectionLength)) >>),
            Cmd("c", << formatSegment(q.c), formatSegment(Neg(q.d)),
                        formatSegment(Add(q.b, q.c)), formatSegment(Neg(q.d)),
                        formatSegment(Add(Add(q.a, q.b), q.c)), formatSegment(Neg(q.d)) >>) >>
    ELSE << Cmd("l", << Zero, formatSegment(Neg(q.p)) >>) >>

joinCornerProfiles(input) ==
    << Cmd("M", << Sub(input.width, input.topRightPathParams.p), Zero >>) >>
    \o traceTopRight(input.topRightPathParams)
    \o << Cmd("L", << input.width, Sub(input.height, input.bottomRightPathParams.p) >>) >>
    \o traceBottomRight(input.bottomRightPathParams)
    \o << Cmd("L", << input.bottomLeftPathParams.p, input.height >>) >>
    \o traceBottomLeft(input.bottomLeftPathParams)
    \o << Cmd("L", << Zero, input.topLeftPathParams.p >>) >>
    \o traceTopLeft(input.topLeftPathParams)
    \o << Cmd("Z", << >>) >>

---------------------------------------------------------------------------
(* buildSquirclePath *)

\* RectanglePath drawn as a corner of radius 0 is: with a zero-length line
RectanglePathWithStub(width, height) ==
    << Cmd("M", <<width, Zero>>), Cmd("l", <<Zero, Zero>>),
       Cmd("L", <<width, height>>), Cmd("L", <<Zero, height>>),
       Cmd("L", <<Zero, Zero>>), Cmd("Z", << >>) >>

\* `M ${width} 0 L ${width} ${height} L 0 ${height} L 0 0 Z`
RectanglePath(width, height) ==
    << Cmd("M", <<width, Zero>>), Cmd("L", <<width, height>>),
       Cmd("L", <<Zero, height>>), Cmd("L", <<Zero, Zero>>),
       Cmd("Z", << >>) >>

\* No string: undefined, or the empty string
NoPath == << >>

NoCorners == << >>

NoKey == << >>

\* What one call did: its cache key, the string returned (value), whether it threw, the
\* branch taken ("hit", "rectangle", "uniform", "mixed", "threw"), the radius
\* and budget of each corner and the patch of each corner where the branch
\* computes them, and the two caches after the call.
Outcome(key, value, branch, corners, patches, paths, profiles) ==
    [ key |-> key, value |-> value, threw |-> branch = "threw", hit |-> branch = "hit",
      branch |-> branch, corners |-> corners, patches |-> patches,
      paths |-> paths, profiles |-> profiles ]

\* storeCachedPath(cacheKey, path); return path
Stored(key, value, branch, corners, patches, paths, profiles) ==
    Outcome(key, value, branch, corners, patches,
            storeCachedPath(paths, key, value), profiles)

\* The input of computeCornerProfile for a corner's radius and budget
ProfileInput(data, corner) ==
    [ cornerRadius |-> corner.radius,
      cornerSmoothing |-> data.cornerSmoothing,
      preserveSmoothing |-> data.preserveSmoothing,
      roundingAndSmoothingBudget |-> corner.roundingAndSmoothingBudget ]

\* All four radii equal and not 0: one profile for the four corners
UniformCorner(data) ==
    [ radius |-> MathMin(data.topLeftCornerRadius,
                         Div(MathMin(data.width, data.height), Num(2))),
      roundingAndSmoothingBudget |-> Div(MathMin(data.width, data.height), Num(2)) ]

UniformPath(data, cacheKey, paths, uniform, pathParams) ==
    Stored(cacheKey,
           joinCornerProfiles([ width |-> data.width, height |-> data.height,
                                topLeftPathParams |-> pathParams.profile,
                                topRightPathParams |-> pathParams.profile,
                                bottomLeftPathParams |-> pathParams.profile,
                                bottomRightPathParams |-> pathParams.profile ]),
           "uniform",
           [c \in {"topLeft", "topRight", "bottomLeft", "bottomRight"} |-> uniform],
           [c \in {"topLeft", "topRight", "bottomLeft", "bottomRight"} |->
               pathParams.profile],
           paths, pathParams.cache)

\* The order in which the profiles of unequal corners are computed
ProfileOrder == <<"topLeft", "topRight", "bottomRight", "bottomLeft">>

\* One more profile, and the profile cache after it
AddedProfile(done, computed) ==
    [patches |-> Append(done.patches, computed.profile), cache |-> computed.cache]

AddProfile(data, corners, done, k) ==
    AddedProfile(done, computeCornerProfile(ProfileInput(data, corners[ProfileOrder[k]]),
                                            done.cache))

\* The profiles of the first k corners of ProfileOrder, and the profile cache
\* after computing them
RECURSIVE ProfilesOf(_, _, _, _)
ProfilesOf(data, corners, profiles, k) ==
    IF k = 0 THEN [patches |-> << >>, cache |-> profiles]
    ELSE AddProfile(data, corners, ProfilesOf(data, corners, profiles, k - 1), k)

MixedPath(data, cacheKey, paths, corners, computed) ==
    Stored(cacheKey,
           joinCornerProfiles([ width |-> data.width, height |-> data.height,
                                topLeftPathParams |-> computed.patches[1],
                                topRightPathParams |-> computed.patches[2],
                                bottomRightPathParams |-> computed.patches[3],
                                bottomLeftPathParams |-> computed.patches[4] ]),
           "mixed", corners,
           [ topLeft |-> computed.patches[1], topRight |-> computed.patches[2],
             bottomRight |-> computed.patches[3], bottomLeft |-> computed.patches[4] ],
           paths, computed.cache)

\* The function after its cache key is composed
BuildKeyed(data, cacheKey, paths, profiles) ==
    IF readCachedPath(paths, cacheKey) # NoPath
    THEN Outcome(cacheKey, readCachedPath(paths, cacheKey), "hit", NoCorners, NoCorners,
                 paths, profiles)
    ELSE IF /\ Eq(data.topLeftCornerRadius, data.topRightCornerRadius)
            /\ Eq(data.topRightCornerRadius, data.bottomRightCornerRadius)
            /\ Eq(data.bottomRightCornerRadius, data.bottomLeftCornerRadius)
            /\ Eq(data.bottomLeftCornerRadius, data.topLeftCornerRadius)
    THEN IF Eq(data.topLeftCornerRadius, Zero)
         THEN Stored(cacheKey, RectanglePath(data.width, data.height), "rectangle",
                     NoCorners, NoCorners, paths, profiles)
         ELSE UniformPath(data, cacheKey, paths, UniformCorner(data),
                          computeCornerProfile(ProfileInput(data, UniformCorner(data)),
                                               profiles))
    ELSE MixedPath(data, cacheKey, paths, normalizeCorners(data),
                   ProfilesOf(data, normalizeCorners(data), profiles, Len(ProfileOrder)))

\* The parameters with their defaults applied
Defaulted(input) ==
    LET cornerRadius == Coalesce(input.cornerRadius, Zero)
    IN  [ width |-> input.width, height |-> input.height,
          cornerSmoothing |-> input.cornerSmoothing,
          preserveSmoothing |-> input.preserveSmoothing,
          cornerRadius |-> cornerRadius,
          topLeftCornerRadius |-> Coalesce(input.topLeftCornerRadius, cornerRadius),
          topRightCornerRadius |-> Coalesce(input.topRightCornerRadius, cornerRadius),
          bottomRightCornerRadius |-> Coalesce(input.bottomRightCornerRadius, cornerRadius),
          bottomLeftCornerRadius |-> Coalesce(input.bottomLeftCornerRadius, cornerRadius) ]

buildSquirclePath(input, paths, profiles) ==
    IF input.cornerSmoothing = Undefined
    THEN \* undefined.toFixed: a TypeError leaves the function
         Outcome(NoKey, NoPath, "threw", NoCorners, NoCorners, paths, profiles)
    ELSE BuildKeyed(Defaulted(input), composeCacheKey(Defaulted(input)), paths, profiles)

---------------------------------------------------------------------------
(* Requests and the specification of one call on empty caches *)

MaxSide == 3
MaxRadius == 2

Sides == {Num(i) : i \in 1..MaxSide}
Radii == {Num(i) : i \in 0..MaxRadius}

\* cornerSmoothing: no smoothing, the usual 0.6, full smoothing
Smoothings == {Zero, Frac(3, 5), One}

\* Requests that give every corner its radius
ExplicitRequests ==
    [ width : Sides, height : Sides,
      cornerSmoothing : Smoothings,
      preserveSmoothing : BOOLEAN,
      cornerRadius : {Undefined},
      topLeftCornerRadius : Radii,
      topRightCornerRadius : Radii,
      bottomRightCornerRadius : Radii,
      bottomLeftCornerRadius : Radii ]

\* Requests that leave corners to the shared cornerRadius, or to its default
DefaultingRequests ==
    [ width : Sides, height : Sides,
      cornerSmoothing : Smoothings,
      preserveSmoothing : BOOLEAN,
      cornerRadius : {Undefined, Num(1)},
      topLeftCornerRadius : {Undefined, Num(MaxRadius)},
      topRightCornerRadius : {Undefined, Num(MaxRadius)},
      bottomRightCornerRadius : {Undefined, Num(MaxRadius)},
      bottomLeftCornerRadius : {Undefined, Num(MaxRadius)} ]

GridRequests == ExplicitRequests \cup DefaultingRequests

\* width 100, height 40, topLeftRadius 60, every other radius left out
ExampleRequests ==
    [ width : {Num(100)}, height : {Num(40)},
      cornerSmoothing : Smoothings,
      preserveSmoothing : BOOLEAN,
      cornerRadius : {Undefined},
      topLeftCornerRadius : {Num(60)},
      topRightCornerRadius : {Undefined},
      bottomRightCornerRadius : {Undefined},
      bottomLeftCornerRadius : {Undefined} ]

Requests == GridRequests \cup ExampleRequests

NoRequest ==
    [ width |-> Undefined, height |-> Undefined, cornerSmoothing |-> Undefined,
      preserveSmoothing |-> FALSE, cornerRadius |-> Undefined,
      topLeftCornerRadius |-> Undefined, topRightCornerRadius |-> Undefined,
      bottomRightCornerRadius |-> Undefined, bottomLeftCornerRadius |-> Undefined ]

\* Before any call
NoOutcome == Outcome(NoKey, NoPath, "none", NoCorners, NoCorners, << >>, << >>)

\* The entry of the history for one call
Called(input, out) ==
    [request |-> input, key |-> out.key, value |-> out.value, hit |-> out.hit]

\* useState<MeasuredFrame | null>(null)
\* The frame state before any layout event (null).  `object' tells apart the
\* objects the state has held: a new object literal is a new value of it
NullFrame == [measured |-> FALSE, width |-> Zero, height |-> Zero, object |-> 0]

NoParams ==
    [ baseRadius |-> Undefined, topLeftRadius |-> Undefined,
      topRightRadius |-> Undefined, bottomRightRadius |-> Undefined,
      bottomLeftRadius |-> Undefined, smoothFactor |-> Undefined,
      borderWidth |-> Undefined ]

Unrendered == [rendered |-> FALSE, threw |-> FALSE]

Init ==
    /\ PATH_CACHE_MAP = << >>
    /\ CORNER_PROFILE_CACHE = << >>
    /\ request \in Requests
    /\ last = NoOutcome
    /\ history = << >>
    /\ frame = NullFrame
    /\ params = NoParams
    /\ view = Unrendered
    /\ layoutCalls = << >>

\* buildSquirclePath(request), with its writes to the two module-level maps
\* The effect of a call that ended with `out'
Return(input, out) ==
    /\ last' = [out EXCEPT !.paths = << >>, !.profiles = << >>]
    /\ PATH_CACHE_MAP' = out.paths
    /\ CORNER_PROFILE_CACHE' = out.profiles
    /\ history' = Append(history, Called(input, out))

Build ==
    /\ history = << >>
    /\ Return(request, buildSquirclePath(request, PATH_CACHE_MAP, CORNER_PROFILE_CACHE))
    /\ UNCHANGED <<request, frame, params, view, layoutCalls>>

Next == Build

Spec == Init /\ [][Next]_vars

---------------------------------------------------------------------------
(* Properties of one call *)

\* The radius the request asks of a corner: its own, or the shared one, or 0
Requested(corner) ==
    LET shared == Coalesce(request.cornerRadius, Zero)
    IN  CASE corner = "topLeft" -> Coalesce(request.topLeftCornerRadius, shared)
          [] corner = "topRight" -> Coalesce(request.topRightCornerRadius, shared)
          [] corner = "bottomLeft" -> Coalesce(request.bottomLeftCornerRadius, shared)
          [] corner = "bottomRight" -> Coalesce(request.bottomRightCornerRadius, shared)

\* The pairs of corners that share an edge, with the edge's length
Edges ==
    { <<"topLeft", "topRight", request.width>>,
      <<"bottomLeft", "bottomRight", request.width>>,
      <<"topLeft", "bottomLeft", request.height>>,
      <<"topRight", "bottomRight", request.height>> }

Computed == last.branch \in {"uniform", "mixed"}

\* C1: after a call with positive width and height and non-negative radii
\* that resolved corner radii (equal radii or not), the resolved radii of
\* any two corners sharing an edge sum to at most the length of that edge.
C1_AdjacentRadiiFit ==
    Computed =>
        \A e \in Edges :
            Le(Add(last.corners[e[1]].radius, last.corners[e[2]].radius), e[3])

\* C1 witness: unequal radii, the top-left radius was cut down, and the two
\* top corners fill the top edge exactly.
C1_Witness ==
    /\ last.branch = "mixed"
    /\ Lt(last.corners.topLeft.radius, Requested("topLeft"))
    /\ Lt(Zero, last.corners.topRight.radius)
    /\ Add(last.corners.topLeft.radius, last.corners.topRight.radius) = request.width

IsExample == request \in ExampleRequests

\* C2 as stated: for width 100, height 40, topLeftRadius 60 and no other
\* radius, the resolved top-left radius is at most 20.
C2_AtMostTwenty ==
    (IsExample /\ Len(history) = 1) => Le(last.corners.topLeft.radius, Num(20))

\* C2 amended: for width 100, height 40, topLeftRadius 60 and no other
\* radius, the resolved top-left radius is 40, the whole left edge (the
\* neighbouring radii are 0, so the split leaves them nothing), and it is
\* never the requested 60.
C2_ClampsToShortEdge ==
    (IsExample /\ Len(history) = 1) =>
        /\ last.branch = "mixed"
        /\ last.corners.topLeft.radius = Num(40)
        /\ last.corners.topLeft.roundingAndSmoothingBudget = Num(40)
        /\ last.corners.topLeft.radius # Num(60)

\* C2 witness: the example request has been built.
C2_Witness ==
    /\ IsExample /\ Len(history) = 1
    /\ Requested("topLeft") = Num(60)
    /\ last.branch = "mixed"

\* The pen after a command, from the pen before it: M and L name a point,
\* l, c and a end at an offset (their last two numbers), Z draws no new point
PenAfter(pen, cmd) ==
    IF cmd.op \in {"M", "L"} THEN <<cmd.args[1], cmd.args[2]>>
    ELSE IF cmd.op \in {"l", "c", "a"}
    THEN <<Add(pen[1], cmd.args[Len(cmd.args) - 1]), Add(pen[2], cmd.args[Len(cmd.args)])>>
    ELSE pen

\* The pen after the first k commands of a path
RECURSIVE PenAt(_, _)
PenAt(path, k) ==
    IF k = 0 THEN <<Zero, Zero>> ELSE PenAfter(PenAt(path, k - 1), path[k])

IndexesOf(path, op) == {i \in 1..Len(path) : path[i].op = op}

\* The position of the k-th command `op` of a path
NthIndex(path, op, k) ==
    CHOOSE i \in IndexesOf(path, op) :
        Cardinality({j \in IndexesOf(path, op) : j <= i}) = k

\* M, then four times a corner trace (c a c, or a single l) and the next
\* edge's L, the fourth trace followed by the only Z
OneLoop(path) ==
    /\ Len(path) >= 9
    /\ IndexesOf(path, "M") = {1}
    /\ IndexesOf(path, "Z") = {Len(path)}
    /\ Cardinality(IndexesOf(path, "L")) = 3
    /\ \A i \in 1..Len(path) : path[i].op \in {"M", "L", "Z", "l", "c", "a"}
    /\ \A i \in 1..(Len(path) - 1) :
          path[i].op \in {"M", "L"} =>
              \/ path[i + 1].op = "l" /\ path[i + 2].op \in {"L", "Z"}
              \/ /\ i + 4 <= Len(path)
                 /\ path[i + 1].op = "c" /\ path[i + 2].op = "a"
                 /\ path[i + 3].op = "c" /\ path[i + 4].op \in {"L", "Z"}

\* The fixed points of the outline: where it starts and where each straight
\* edge ends (top-right, bottom-right, bottom-left, top-left, clockwise)
Clockwise(path) ==
    LET q == last.patches
        w == request.width
        h == request.height
    IN  /\ path[1].args = <<Sub(w, q.topRight.p), Zero>>
        /\ path[NthIndex(path, "L", 1)].args = <<w, Sub(h, q.bottomRight.p)>>
        /\ path[NthIndex(path, "L", 2)].args = <<q.bottomLeft.p, h>>
        /\ path[NthIndex(path, "L", 3)].args = <<Zero, q.topLeft.p>>

\* Where each corner trace should end: on the edge that follows it
TraceEnds(path) ==
    LET q == last.patches
        w == request.width
        h == request.height
    IN  << [at |-> PenAt(path, NthIndex(path, "L", 1) - 1), edge |-> <<w, q.topRight.p>>],
           [at |-> PenAt(path, NthIndex(path, "L", 2) - 1),
            edge |-> <<Sub(w, q.bottomRight.p), h>>],
           [at |-> PenAt(path, NthIndex(path, "L", 3) - 1),
            edge |-> <<Zero, Sub(h, q.bottomLeft.p)>>],
           [at |-> PenAt(path, Len(path) - 1), edge |-> <<q.topLeft.p, Zero>>] >>

\* a + b + c + d + arcSectionLength = p
SumsToP(q) == Add(Add(Add(Add(q.a, q.b), q.c), q.d), q.arcSectionLength) = q.p

AbsDiff(x, y) == IF Lt(x, y) THEN Sub(y, x) ELSE Sub(x, y)

\* Three numbers rounded to four decimals: at most 3 * 0.00005 off
Tolerance == Frac(3, 20000)

Corners == {"topLeft", "topRight", "bottomLeft", "bottomRight"}

---------------------------------------------------------------------------
(* The specification of a sequence of calls on a path cache near its limit *)

MaxCalls == 3

\* A request with no radius at all (a rectangle), one unit high
Plain(width) ==
    [NoRequest EXCEPT !.width = width, !.height = One, !.cornerSmoothing = One]

\* The same with a shared radius
Rounded(width, radius) == [Plain(width) EXCEPT !.cornerRadius = radius]

\* The module's maps, and the calls made, after the calls Plain(lo), ...,
\* Plain(hi) from the state `before'
FillOne(before, input, out) ==
    [ paths |-> out.paths, profiles |-> out.profiles,
      history |-> Append(before.history, Called(input, out)) ]

RECURSIVE FillRange(_, _, _)
FillRange(before, lo, hi) ==
    IF lo > hi THEN before
    ELSE IF lo = hi
    THEN FillOne(before, Plain(Num(lo)),
                 buildSquirclePath(Plain(Num(lo)), before.paths, before.profiles))
    ELSE LET mid == (lo + hi) \div 2
             half == FillRange(before, lo, mid)
         IN  IF Len(half.history) > 0 THEN FillRange(half, mid + 1, hi) ELSE before

Filled(n) ==
    FillRange([paths |-> << >>, profiles |-> << >>, history |-> << >>], 1, n)

FillLevels == {PATH_CACHE_LIMIT - 1, PATH_CACHE_LIMIT}

\* The oldest key, a width that differs from it below the two decimals of the
\* path key, a width never seen, two rounded shapes that differ below the two
\* decimals of the path key, and two rounded shapes with different path keys
\* whose corners differ below the three decimals of the profile key
ProbeRequests ==
    { Plain(Num(1)), Plain(Frac(1001, 1000)),
      Plain(Num(PATH_CACHE_LIMIT + 1)),
      Rounded(Num(1), Frac(1, 2)), Rounded(Num(1), Frac(201, 400)),
      Rounded(Frac(1251, 2500), Num(5)), Rounded(Frac(1, 2), Num(6)) }

InitCache ==
    /\ \E n \in FillLevels :
          /\ PATH_CACHE_MAP = Filled(n).paths
          /\ CORNER_PROFILE_CACHE = Filled(n).profiles
          /\ history = Filled(n).history
    /\ request = NoRequest
    /\ last = NoOutcome
    /\ frame = NullFrame
    /\ params = NoParams
    /\ view = Unrendered
    /\ layoutCalls = << >>

\* One more call of buildSquirclePath
Call(input) ==
    /\ Len(history) < PATH_CACHE_LIMIT + MaxCalls
    /\ request' = input
    /\ Return(input, buildSquirclePath(input, PATH_CACHE_MAP, CORNER_PROFILE_CACHE))
    /\ UNCHANGED <<frame, params, view, layoutCalls>>

NextCache == \E input \in ProbeRequests : Call(input)

SpecCache == InitCache /\ [][NextCache]_vars

---------------------------------------------------------------------------
(* Properties of the path cache *)

KeySet(map) == {map[i].key : i \in 1..Len(map)}

\* The call that put a resident key in: the latest one that computed it
InsertedAt(key) ==
    CHOOSE i \in 1..Len(history) :
        /\ history[i].key = key /\ ~history[i].hit
        /\ \A j \in (i + 1)..Len(history) : ~(history[j].key = key /\ ~history[j].hit)

\* The resident key that was put in first
EarliestInserted ==
    CHOOSE k \in KeySet(PATH_CACHE_MAP) :
        \A other \in KeySet(PATH_CACHE_MAP) : InsertedAt(k) <= InsertedAt(other)

\* C3: a call that stores a key that is not in a path cache of 160 entries
\* removes exactly one entry, the one put in earliest, and no other; a call
\* that hits leaves the cache, and so the next victim, as they are.
C3_FifoEviction ==
    [][ /\ ( /\ Len(PATH_CACHE_MAP) = PATH_CACHE_LIMIT
             /\ history' # history /\ ~last'.hit /\ ~last'.threw )
           => /\ ~(last'.key \in KeySet(PATH_CACHE_MAP))
              /\ KeySet(PATH_CACHE_MAP) \ KeySet(PATH_CACHE_MAP') = {EarliestInserted}
              /\ KeySet(PATH_CACHE_MAP') =
                    (KeySet(PATH_CACHE_MAP) \ {EarliestInserted}) \cup {last'.key}
              /\ Len(PATH_CACHE_MAP') = PATH_CACHE_LIMIT
        /\ (history' # history /\ last'.hit) => PATH_CACHE_MAP' = PATH_CACHE_MAP
      ]_vars

\* C3 witness: the cache is full, the last call but one hit the oldest key,
\* and the last call stored a new key and the oldest key is gone.
C3_Witness ==
    LET n == Len(history)
    IN  /\ n >= PATH_CACHE_LIMIT + 2
        /\ Len(PATH_CACHE_MAP) = PATH_CACHE_LIMIT
        /\ history[n - 1].hit
        /\ history[n - 1].key = history[1].key
        /\ ~history[n].hit
        /\ ~(history[1].key \in KeySet(PATH_CACHE_MAP))
        /\ history[2].key \in KeySet(PATH_CACHE_MAP)
        /\ history[n].key \in KeySet(PATH_CACHE_MAP)

\* A radius as the call uses it: its own, or else the shared one, or else 0
RadiusInEffect(input, field) == Coalesce(input[field], Coalesce(input.cornerRadius, Zero))

\* Two requests that agree on every parameter at the precision kept by the
\* key: two decimals, four for the smoothing
SameAfterRounding(a, b) ==
    /\ a.preserveSmoothing = b.preserveSmoothing
    /\ toFixed(a.cornerSmoothing, 4) = toFixed(b.cornerSmoothing, 4)
    /\ toFixed(a.width, 2) = toFixed(b.width, 2)
    /\ toFixed(a.height, 2) = toFixed(b.height, 2)
    /\ toFixed(Coalesce(a.cornerRadius, Zero), 2) = toFixed(Coalesce(b.cornerRadius, Zero), 2)
    /\ \A field \in { "topLeftCornerRadius", "topRightCornerRadius",
                      "bottomRightCornerRadius", "bottomLeftCornerRadius" } :
          toFixed(RadiusInEffect(a, field), 2) = toFixed(RadiusInEffect(b, field), 2)

\* C4: a call whose parameters are those of the call before it, once rounded
\* to the key's precision, is a path-cache hit: it returns the string the
\* call before returned, resolves no corner and computes no profile, and
\* leaves both caches as they were.
C4_SecondCallHits ==
    [][ ( /\ history' # history
          /\ Len(history) > 0
          /\ SameAfterRounding(request', history[Len(history)].request) )
        => /\ last'.hit
           /\ last'.branch = "hit"
           /\ last'.value = history[Len(history)].value
           /\ last'.corners = NoCorners
           /\ PATH_CACHE_MAP' = PATH_CACHE_MAP
           /\ CORNER_PROFILE_CACHE' = CORNER_PROFILE_CACHE
      ]_vars

\* C4 witness: a rounded shape was computed by one call and returned from the
\* cache by the next, whose radius differs below the key's precision.
C4_Witness ==
    LET n == Len(history)
    IN  /\ n >= 2
        /\ ~history[n - 1].hit
        /\ history[n].hit
        /\ history[n].request # history[n - 1].request
        /\ SameAfterRounding(history[n].request, history[n - 1].request)
        /\ history[n].value = history[n - 1].value
        /\ \E i \in 1..Len(history[n].value) : history[n].value[i].op = "c"
        /\ last.hit


\* What the same call returns when both caches are empty
Uncached(input) == buildSquirclePath(input, << >>, << >>).value

\* C13: the path cache is transparent: whatever calls came before, a call
\* returns exactly the string the same call returns with empty caches, also
\* when an earlier input differed from it only below the precision of the key
C13_CacheTransparent ==
    (request # NoRequest /\ ~last.threw) => last.value = Uncached(request)

---------------------------------------------------------------------------
(* The components: the measured frame, the geometry of a render *)

\* What a render of the backdrop yields: path = NoPath and hasPath = FALSE
\* stand for null; `built' is the input the path was built from and `outcome'
\* what that call did; the maps are the module's caches after the render
Geometry(hasPath, threw, built, outcome, insetAmount, renderedStrokeWidth, strokeCommandWidth, calls, paths, profiles) ==
    [ hasPath |-> hasPath, threw |-> threw, built |-> built, path |-> outcome.value,
      outcome |-> outcome,
      insetAmount |-> insetAmount, renderedStrokeWidth |-> renderedStrokeWidth,
      strokeCommandWidth |-> strokeCommandWidth,
      calls |-> calls, paths |-> paths, profiles |-> profiles ]

\* The geometry around a call of buildSquirclePath that ended with `out'
GeometryOf(input, out, insetAmount, renderedStrokeWidth, strokeCommandWidth) ==
    Geometry(~out.threw, out.threw, input,
             [out EXCEPT !.paths = << >>, !.profiles = << >>], insetAmount,
             IF out.threw THEN Zero ELSE renderedStrokeWidth,
             IF out.threw THEN Zero ELSE strokeCommandWidth,
             << Called(input, out) >>, out.paths, out.profiles)

Built(input, insetAmount, renderedStrokeWidth, strokeCommandWidth, paths, profiles) ==
    GeometryOf(input, buildSquirclePath(input, paths, profiles), insetAmount,
               renderedStrokeWidth, strokeCommandWidth)

NoGeometry(paths, profiles) ==
    Geometry(FALSE, FALSE, NoRequest, NoOutcome, Zero, Zero, Zero, << >>, paths, profiles)

shrinkRadius(radius, insetAmount) ==
    IF IsNumber(radius) THEN MathMax(Zero, Sub(radius, insetAmount)) ELSE radius

\* Math.min(...values) of a set that is not empty
RECURSIVE MinOf(_)
MinOf(values) ==
    LET v == CHOOSE x \in values : TRUE
    IN  IF values = {v} THEN v ELSE MathMin(v, MinOf(values \ {v}))

\* [baseRadius, topLeftRadius, ...].filter(typeof value === "number" && value > 0)
PositiveRadii(baseRadius, squircleParams) ==
    { value \in { baseRadius, squircleParams.topLeftRadius, squircleParams.topRightRadius,
                  squircleParams.bottomLeftRadius, squircleParams.bottomRightRadius } :
        IsNumber(value) /\ Gt(value, Zero) }

\* The stroke width the inset backdrop renders
ClampedStrokeWidth(squircleParams) ==
    LET baseRadius == Coalesce(squircleParams.baseRadius, Zero)
        borderWidth == Coalesce(squircleParams.borderWidth, Zero)
        normalizedStrokeWidth == MathMax(Zero, borderWidth)
        cornerRadii == PositiveRadii(baseRadius, squircleParams)
        maxStrokeWidth == IF cornerRadii # {} THEN MinOf(cornerRadii)
                          ELSE normalizedStrokeWidth
    IN  MathMin(normalizedStrokeWidth, maxStrokeWidth)

\* The request of the path for the whole frame
BasePath(layoutWidth, layoutHeight, squircleParams) ==
    [ width |-> layoutWidth, height |-> layoutHeight,
      cornerSmoothing |-> squircleParams.smoothFactor,
      preserveSmoothing |-> FALSE,
      cornerRadius |-> Coalesce(squircleParams.baseRadius, Zero),
      topLeftCornerRadius |-> squircleParams.topLeftRadius,
      topRightCornerRadius |-> squircleParams.topRightRadius,
      bottomRightCornerRadius |-> squircleParams.bottomRightRadius,
      bottomLeftCornerRadius |-> squircleParams.bottomLeftRadius ]

\* The request of the path inset by half the clamped stroke
InsetPath(layoutWidth, layoutHeight, squircleParams, clampedStrokeWidth, inset) ==
    [ width |-> Sub(layoutWidth, clampedStrokeWidth),
      height |-> Sub(layoutHeight, clampedStrokeWidth),
      cornerSmoothing |-> squircleParams.smoothFactor,
      preserveSmoothing |-> FALSE,
      cornerRadius |-> shrinkRadius(Coalesce(squircleParams.baseRadius, Zero), inset),
      topLeftCornerRadius |-> shrinkRadius(squircleParams.topLeftRadius, inset),
      topRightCornerRadius |-> shrinkRadius(squircleParams.topRightRadius, inset),
      bottomRightCornerRadius |-> shrinkRadius(squircleParams.bottomRightRadius, inset),
      bottomLeftCornerRadius |-> shrinkRadius(squircleParams.bottomLeftRadius, inset) ]

\* The useMemo of the inset backdrop once the stroke is clamped
InsetGeometry(layoutWidth, layoutHeight, squircleParams, clampedStrokeWidth, paths, profiles) ==
    IF layoutWidth = Zero \/ layoutHeight = Zero THEN NoGeometry(paths, profiles)
    ELSE IF MathMax(Zero, Coalesce(squircleParams.borderWidth, Zero)) = Zero
    THEN Built(BasePath(layoutWidth, layoutHeight, squircleParams),
               Zero, Zero, Zero, paths, profiles)
    ELSE IF Le(clampedStrokeWidth, Zero)
    THEN Built(BasePath(layoutWidth, layoutHeight, squircleParams),
               Zero, Zero, Zero, paths, profiles)
    ELSE Built(InsetPath(layoutWidth, layoutHeight, squircleParams, clampedStrokeWidth,
                         Div(clampedStrokeWidth, Num(2))),
               Div(clampedStrokeWidth, Num(2)), clampedStrokeWidth, Zero,
               paths, profiles)

\* The backdrop that insets the path by half the stroke: the body of its useMemo
SquircleBackdropInset(layout, squircleParams, paths, profiles) ==
    InsetGeometry(IF layout.measured THEN layout.width ELSE Zero,
                  IF layout.measured THEN layout.height ELSE Zero,
                  squircleParams, ClampedStrokeWidth(squircleParams), paths, profiles)

\* The parameter normalizer of the clip-based component, as the design
\* document gives it: a smoothing factor that is missing or not a finite
\* number is rejected, a missing radius falls back to the base radius and
\* then to 0, a negative radius or stroke width becomes 0
ClampToZero(value) == IF Lt(value, Zero) THEN Zero ELSE value

normalizeSquircleParams(squircleParams) ==
    LET baseRadius == ClampToZero(Coalesce(squircleParams.baseRadius, Zero))
        corner(radius) == ClampToZero(Coalesce(radius, baseRadius))
    IN  IF ~IsFinite(squircleParams.smoothFactor)
        THEN [threw |-> TRUE, params |-> NoParams]
        ELSE [ threw |-> FALSE,
               params |-> [ baseRadius |-> baseRadius,
                            topLeftRadius |-> corner(squircleParams.topLeftRadius),
                            topRightRadius |-> corner(squircleParams.topRightRadius),
                            bottomRightRadius |-> corner(squircleParams.bottomRightRadius),
                            bottomLeftRadius |-> corner(squircleParams.bottomLeftRadius),
                            smoothFactor |-> squircleParams.smoothFactor,
                            borderWidth |->
                                ClampToZero(Coalesce(squircleParams.borderWidth, Zero)) ] ]

\* computeSquircleGeometry with no test of the frame
computeSquircleGeometryUnguarded(measured, normalized, paths, profiles) ==
    Built([ width |-> measured.width, height |-> measured.height,
            cornerSmoothing |-> normalized.smoothFactor,
            preserveSmoothing |-> FALSE,
            cornerRadius |-> normalized.baseRadius,
            topLeftCornerRadius |-> normalized.topLeftRadius,
            topRightCornerRadius |-> normalized.topRightRadius,
            bottomRightCornerRadius |-> normalized.bottomRightRadius,
            bottomLeftCornerRadius |-> normalized.bottomLeftRadius ],
          Zero, Zero,
          IF Gt(normalized.borderWidth, Zero)
          THEN Mul(normalized.borderWidth, Num(2)) ELSE normalized.borderWidth,
          paths, profiles)

computeSquircleGeometry(measured, normalized, paths, profiles) ==
    IF ~measured.measured \/ Le(measured.width, Zero) \/ Le(measured.height, Zero)
    THEN NoGeometry(paths, profiles)
    ELSE Built([ width |-> measured.width, height |-> measured.height,
                 cornerSmoothing |-> normalized.smoothFactor,
                 preserveSmoothing |-> FALSE,
                 cornerRadius |-> normalized.baseRadius,
                 topLeftCornerRadius |-> normalized.topLeftRadius,
                 topRightCornerRadius |-> normalized.topRightRadius,
                 bottomRightCornerRadius |-> normalized.bottomRightRadius,
                 bottomLeftCornerRadius |-> normalized.bottomLeftRadius ],
               Zero, Zero,
               IF Gt(normalized.borderWidth, Zero)
               THEN Mul(normalized.borderWidth, Num(2)) ELSE normalized.borderWidth,
               paths, profiles)

\* The render of the clip-based component: normalize, then the backdrop
SquircleBackdropClip(measured, squircleParams, paths, profiles) ==
    LET normalized == normalizeSquircleParams(squircleParams)
    IN  IF normalized.threw
        THEN Geometry(FALSE, TRUE, NoRequest, NoOutcome, Zero, Zero, Zero, << >>,
                      paths, profiles)
        ELSE computeSquircleGeometry(measured, normalized.params, paths, profiles)

---------------------------------------------------------------------------
(* The specification of a mounted component that receives layout events *)

MaxLayouts == 2

Components == {"inset", "clip"}

\* base radius alone, one corner of its own, every corner of its own
RadiusParams ==
    { [NoParams EXCEPT !.baseRadius = b] : b \in {Undefined, Zero, Num(1), Num(4)} }
    \cup { [NoParams EXCEPT !.baseRadius = Num(2), !.topLeftRadius = Num(1)],
           [NoParams EXCEPT !.baseRadius = Num(1), !.topLeftRadius = Num(2),
                            !.topRightRadius = Num(2), !.bottomRightRadius = Num(2),
                            !.bottomLeftRadius = Num(2)],
           [NoParams EXCEPT !.baseRadius = Num(1), !.topLeftRadius = Zero,
                            !.topRightRadius = Zero, !.bottomRightRadius = Num(2),
                            !.bottomLeftRadius = Zero] }

SmoothFactors == {Undefined, NaN, Frac(3, 5), One}

BorderWidths == {Undefined, Zero, Num(1), Num(3)}

SquircleParams ==
    { [r EXCEPT !.smoothFactor = s, !.borderWidth = b] :
        r \in RadiusParams, s \in SmoothFactors, b \in BorderWidths }

\* event.nativeEvent.layout
LayoutEvents ==
    { [width |-> Num(w), height |-> Num(h)] :
        <<w, h>> \in { <<0, 0>>, <<0, 2>>, <<2, 2>>, <<4, 2>>, <<4, 4>> } }

\* The view after a render of `component' for the frame `measured'
Rendered(component, measured, geometry) ==
    [ rendered |-> TRUE, component |-> component, frame |-> measured,
      hasPath |-> geometry.hasPath, threw |-> geometry.threw,
      built |-> geometry.built, path |-> geometry.path,
      insetAmount |-> geometry.insetAmount,
      renderedStrokeWidth |-> geometry.renderedStrokeWidth,
      strokeCommandWidth |-> geometry.strokeCommandWidth ]

Mounting(component) ==
    [ rendered |-> FALSE, component |-> component, frame |-> NullFrame,
      hasPath |-> FALSE, threw |-> FALSE, built |-> NoRequest, path |-> NoPath,
      insetAmount |-> Zero, renderedStrokeWidth |-> Zero,
      strokeCommandWidth |-> Zero ]

InitView ==
    /\ PATH_CACHE_MAP = << >>
    /\ CORNER_PROFILE_CACHE = << >>
    /\ request = NoRequest
    /\ last = NoOutcome
    /\ history = << >>
    /\ frame = NullFrame
    /\ params \in SquircleParams
    /\ view \in {Mounting(component) : component \in Components}
    /\ layoutCalls = << >>

\* A render: at mount, and after the frame state changed
Render(component, geometry) ==
    /\ view.component = component
    /\ ~view.threw
    /\ ~view.rendered \/ view.frame # frame
    /\ view' = Rendered(component, frame, geometry)
    /\ PATH_CACHE_MAP' = geometry.paths
    /\ CORNER_PROFILE_CACHE' = geometry.profiles
    /\ history' = history \o geometry.calls
    /\ request' = geometry.built
    /\ last' = geometry.outcome
    /\ UNCHANGED <<frame, params, layoutCalls>>

RenderInset ==
    Render("inset", SquircleBackdropInset(frame, params, PATH_CACHE_MAP,
                                          CORNER_PROFILE_CACHE))

RenderClip ==
    Render("clip", SquircleBackdropClip(frame, params, PATH_CACHE_MAP,
                                        CORNER_PROFILE_CACHE))

\* The frame state after setFrame with a new object literal
NewFrame(prev, event) ==
    [measured |-> TRUE, width |-> event.width, height |-> event.height,
     object |-> prev.object + 1]

\* handleLayout with a setFrame that stores a new object for every event
handleLayoutAlwaysReplace(event) ==
    /\ Len(layoutCalls) < MaxLayouts
    /\ view.rendered /\ ~view.threw /\ view.frame = frame
    /\ frame' = NewFrame(frame, event)
    /\ layoutCalls' = Append(layoutCalls, event)
    /\ UNCHANGED <<PATH_CACHE_MAP, CORNER_PROFILE_CACHE, request, last, history,
                   params, view>>

\* The layout callback of a view that rendered its current frame state
handleLayout(event) ==
    /\ Len(layoutCalls) < MaxLayouts
    /\ view.rendered /\ ~view.threw /\ view.frame = frame
    /\ frame' = IF /\ frame.measured
                   /\ Eq(frame.width, event.width) /\ Eq(frame.height, event.height)
                THEN frame
                ELSE NewFrame(frame, event)
    /\ layoutCalls' = Append(layoutCalls, event)
    /\ UNCHANGED <<PATH_CACHE_MAP, CORNER_PROFILE_CACHE, request, last, history,
                   params, view>>

NextView ==
    \/ RenderInset
    \/ RenderClip
    \/ \E event \in LayoutEvents : handleLayout(event)

SpecView == InitView /\ [][NextView]_vars

---------------------------------------------------------------------------
(* Properties of the components *)

\* The frame a view was rendered for has an area
HasArea(measured) ==
    measured.measured /\ Gt(measured.width, Zero) /\ Gt(measured.height, Zero)

\* C7: a component whose smoothing factor is missing or not a finite number
\* never has a path and never puts anything in a cache, and its render for a
\* frame with an area (and, with the normalizer, any render) raises an error.
C7_InvalidSmoothingRejected ==
    (view.rendered /\ ~IsFinite(params.smoothFactor)) =>
        /\ ~view.hasPath
        /\ view.path = NoPath
        /\ PATH_CACHE_MAP = << >>
        /\ CORNER_PROFILE_CACHE = << >>
        /\ (HasArea(view.frame) \/ view.component = "clip") => view.threw

\* C8: with a valid smoothing factor, a view rendered while no layout event
\* has arrived, or for a frame of width or height 0, has no geometry (no
\* path, no call of buildSquirclePath) and raised no error; a view has a path
\* only for a frame that a layout event reported with positive width and height.
C8_NoGeometryWithoutArea ==
    (view.rendered /\ IsFinite(params.smoothFactor)) =>
        /\ ( \/ ~view.frame.measured
             \/ view.frame.width = Zero
             \/ view.frame.height = Zero )
           => /\ ~view.hasPath /\ view.path = NoPath /\ view.built = NoRequest
              /\ ~view.threw
        /\ view.hasPath => (HasArea(view.frame) /\ Len(layoutCalls) > 0)
        /\ (~view.frame.measured => history = << >>)

\* C8 witness: a layout event reported a frame 0 wide and 2 high, the view
\* was rendered for it, and it has no path and no error; nothing was built.
C8_Witness ==
    /\ view.rendered /\ IsFinite(params.smoothFactor)
    /\ view.frame.measured /\ view.frame.width = Zero /\ view.frame.height = Num(2)
    /\ Len(layoutCalls) = 1
    /\ ~view.hasPath /\ ~view.threw
    /\ history = << >>

\* A corner's radius in effect: its own if given, else the base radius, else 0
InEffect(field) == Coalesce(params[field], Coalesce(params.baseRadius, Zero))

PositiveInEffect ==
    { InEffect(field) :
        field \in { f \in { "topLeftRadius", "topRightRadius",
                            "bottomRightRadius", "bottomLeftRadius" } :
                      Gt(InEffect(f), Zero) } }

\* A view of the inset backdrop that drew a path for a frame with an area,
\* from a valid smoothing factor
InsetDrawn ==
    /\ view.rendered /\ view.component = "inset"
    /\ IsFinite(params.smoothFactor)
    /\ HasArea(view.frame) /\ view.hasPath

\* C9: when the border width is positive and some corner has a positive
\* radius in effect, the rendered stroke width is the smaller of the border
\* width and the smallest positive radius in effect among the four corners,
\* and the inset is half of it.
C9_ClampToSmallestCorner ==
    ( /\ InsetDrawn
      /\ Gt(Coalesce(params.borderWidth, Zero), Zero)
      /\ PositiveInEffect # {} )
    => /\ view.renderedStrokeWidth = MathMin(params.borderWidth, MinOf(PositiveInEffect))
       /\ view.insetAmount = Div(view.renderedStrokeWidth, Num(2))

\* C10: whenever a stroke survives clamping as s > 0 for a frame w by h, the
\* inset path is built for w - s > 0 and h - s > 0, and its box moved by s / 2,
\* [s/2, w - s/2] x [s/2, h - s/2], lies strictly inside [0, w] x [0, h].
C10_StrokeContained ==
    (InsetDrawn /\ Gt(view.renderedStrokeWidth, Zero)) =>
        LET s == view.renderedStrokeWidth
            w == view.frame.width
            h == view.frame.height
        IN  /\ view.built.width = Sub(w, s) /\ view.built.height = Sub(h, s)
            /\ Gt(Sub(w, s), Zero) /\ Gt(Sub(h, s), Zero)
            /\ view.insetAmount = Div(s, Num(2))
            /\ Gt(view.insetAmount, Zero)
            /\ Lt(Add(view.insetAmount, view.built.width), w)
            /\ Lt(Add(view.insetAmount, view.built.height), h)

\* The calls of buildSquirclePath made so far for a width and a height
CallsFor(width, height) ==
    { i \in 1..Len(history) :
        history[i].request.width = width /\ history[i].request.height = height }

\* C11: when a stroke survives clamping as s > 0 for a frame w by h, the
\* geometry holds two paths and the stroke width: the path that is filled
\* was built for the full w by h, and a second path was built for the inset
\* w - s by h - s; the filled path is not the inset one.
C11_FillAndInsetPaths ==
    (InsetDrawn /\ Gt(view.renderedStrokeWidth, Zero)) =>
        LET s == view.renderedStrokeWidth
            w == view.frame.width
            h == view.frame.height
        IN  /\ view.built.width = w /\ view.built.height = h
            /\ CallsFor(w, h) # {}
            /\ CallsFor(Sub(w, s), Sub(h, s)) # {}
            /\ \E i \in CallsFor(w, h) : view.path = history[i].value


\* The event reports the width and height of the stored frame
SameAsStored(event) ==
    frame.measured /\ frame.width = event.width /\ frame.height = event.height

\* A render is due: none happened yet, or the frame state is another object
\* than the one rendered
RenderDue == ~view.threw /\ (~view.rendered \/ view.frame # frame)

\* C14: every step that changes the frame state or invokes the caller's
\* onLayout is the handling of one layout event: onLayout is invoked once more,
\* with that event; if the event reports the stored width and height, the
\* frame state is left as it is, no path is built and no render becomes due;
\* otherwise the frame state becomes a new frame of exactly the reported
\* width and height
C14_LayoutKeepsOrReplaces ==
    [][(frame' # frame \/ layoutCalls' # layoutCalls) =>
          \E event \in LayoutEvents :
              /\ layoutCalls' = Append(layoutCalls, event)
              /\ IF SameAsStored(event)
                 THEN frame' = frame /\ history' = history /\ view' = view /\ ~RenderDue'
                 ELSE /\ frame' # frame /\ frame'.measured
                      /\ frame'.width = event.width /\ frame'.height = event.height]_vars

\* C14 witness: a second event reported the width and height of the first: the
\* frame state is still the object the first event stored, onLayout was
\* invoked for both, and the one path built is the one of the first render
C14_Witness ==
    /\ Len(layoutCalls) = 2 /\ layoutCalls[1] = layoutCalls[2]
    /\ HasArea(frame) /\ frame.object = 1
    /\ frame.width = layoutCalls[2].width /\ frame.height = layoutCalls[2].height
    /\ view.hasPath /\ view.frame = frame /\ Len(history) = 1

---------------------------------------------------------------------------
(* Properties of the corner profiles *)

\* C12: after a call that computed corner profiles, with preserveSmoothing or
\* without, the extent p of every corner is at most the corner's budget, the
\* extents of two corners sharing an edge sum to at most the edge's length
\* (so no straight edge has negative length), and with four equal radii
\* 2p is at most the shorter of width and height.
C12_ExtentWithinBudget ==
    Computed =>
        /\ \A c \in Corners :
              /\ Le(Zero, last.patches[c].p)
              /\ Le(last.patches[c].p, last.corners[c].roundingAndSmoothingBudget)
        /\ \A e \in Edges :
              Le(Add(last.patches[e[1]].p, last.patches[e[2]].p), e[3])
        /\ last.branch = "uniform" =>
              Le(Mul(Num(2), last.patches.topLeft.p),
                 MathMin(request.width, request.height))

===========================================================================
